---- MODULE Spec2Model ----
(***************************************************************************)
(* Student registration web application (app.js, models/Student.js).       *)
(*                                                                         *)
(* Strings are sequences of one-character strings so that toLowerCase,     *)
(* toUpperCase, trim, notEmpty, isLength and isEmail are computed on the   *)
(* characters.  A request is a handler invocation; it runs from one await  *)
(* to the next in one step, and the database executes one operation per    *)
(* step, or fails.  A handler behind ensureLoggedIn reads the session's     *)
(* user id when the request arrives; signup and login write the session    *)
(* when they answer.  The timestamps (createdAt, registeredAt) are left    *)
(* to the order of insertion: createdAt is the position in the collection  *)
(* and registeredAt the position in the array.                             *)
(*                                                                         *)
(* Spec            one request at a time, every signup and login form      *)
(* SpecCourses     one request at a time, two students, the catalog        *)
(* SpecConc        two signups in flight                                   *)
(* SpecConcCourses two registrations (and signups) in flight               *)
(***************************************************************************)
EXTENDS Naturals, Sequences, FiniteSets, TLC

VARIABLES
    students,   \* the students collection, in insertion order; _id = position
    sessions,   \* the server-side session store: cookie id -> session user
    req         \* the requests: handler position, inputs, locals, response

vars == <<students, sessions, req>>

-----------------------------------------------------------------------------
(* Bounds of the model *)

\* the number of distinct well-formed email addresses, and of distinct
\* non-blank SRNs, that clients submit
NumAccounts == 2

\* the number of catalog courses (the first ones of COURSES) that clients
\* ask to register
NumCourseInputs == 2

-----------------------------------------------------------------------------
(* Program constants *)

\* app.js:106  isLength({ min: 6 })
MinPasswordLen == 6

\* app.js:19
SALT_ROUNDS == 10

\* app.js:24-30
COURSES == <<
    [id |-> "cloud-fund",   name |-> "Cloud Computing Fundamentals"],
    [id |-> "cloud-deploy", name |-> "Advanced Cloud Deployment"],
    [id |-> "cloud-sec",    name |-> "Cloud Security Management"],
    [id |-> "devops-cloud", name |-> "DevOps & Cloud Automation"],
    [id |-> "mongo-db",     name |-> "Database Management with MongoDB"] >>

-----------------------------------------------------------------------------
(* String functions *)

\* String.prototype.toLowerCase, on one character
LowerChar(c) ==
    CASE c = "A" -> "a" [] c = "B" -> "b" [] c = "C" -> "c"
      [] c = "S" -> "s" [] c = "X" -> "x" [] OTHER -> c

\* String.prototype.toUpperCase, on one character
UpperChar(c) ==
    CASE c = "a" -> "A" [] c = "b" -> "B" [] c = "c" -> "C"
      [] c = "s" -> "S" [] c = "x" -> "X" [] OTHER -> c

toLowerCase(s) == [i \in 1..Len(s) |-> LowerChar(s[i])]

toUpperCase(s) == [i \in 1..Len(s) |-> UpperChar(s[i])]

RECURSIVE trimStart(_)
trimStart(s) ==
    IF s # <<>> /\ Head(s) = " " THEN trimStart(Tail(s)) ELSE s

RECURSIVE trimEnd(_)
trimEnd(s) ==
    IF s # <<>> /\ s[Len(s)] = " " THEN trimEnd(SubSeq(s, 1, Len(s) - 1)) ELSE s

\* String.prototype.trim
trim(s) == trimEnd(trimStart(s))

\* the positions of character c in s
Positions(s, c) == {i \in 1..Len(s) : s[i] = c}

\* express-validator notEmpty(): the value is not the empty string
\* (white space is not ignored)
notEmpty(s) == Len(s) > 0

\* express-validator isLength({ min })
isLength(s, min) == Len(s) >= min

\* express-validator isEmail(): local@domain, no white space, exactly one @,
\* a non-empty local part, and a domain of at least two non-empty labels
isEmail(s) ==
    /\ Positions(s, " ") = {}
    /\ Cardinality(Positions(s, "@")) = 1
    /\ LET at == CHOOSE i \in Positions(s, "@") : TRUE
           dots == {i \in Positions(s, ".") : i > at}
       IN  /\ at > 1
           /\ dots # {}
           /\ \A d \in dots : d > at + 1 /\ d < Len(s) /\ (d + 1) \notin dots

-----------------------------------------------------------------------------
(* Auth service: bcrypt *)

\* bcrypt.hash(password, rounds): the string $2b$<rounds>$<digest>.  The
\* digest stands for the one-way image of the password; the random salt is
\* left out, it does not change what compare answers.
bcryptHash(password, rounds) == <<"$2b$", ToString(rounds), "$">> \o password

\* bcrypt.compare(password, hash)
bcryptCompare(password, hash) ==
    /\ Len(hash) >= 3
    /\ hash[1] = "$2b$"
    /\ SubSeq(hash, 4, Len(hash)) = password

-----------------------------------------------------------------------------
(* Student model (models/Student.js) *)

\* no error was thrown
NoError == "none"

\* the schema's setters, applied when a document is constructed:
\* name trim; email trim, lowercase; srn trim, uppercase
newStudent(id, name, email, srn, passwordHash) ==
    [ _id |-> id,
      name |-> trim(name),
      email |-> toLowerCase(trim(email)),
      srn |-> toUpperCase(trim(srn)),
      passwordHash |-> passwordHash,
      registeredCourses |-> <<>>,
      createdAt |-> id ]

\* the schema's required validators: a required string must not be empty
validateStudent(doc) ==
    /\ doc.name # <<>>
    /\ doc.email # <<>>
    /\ doc.srn # <<>>

\* the collection with the unique index on srn missing
duplicateKeyEmailOnly(coll, doc) ==
    \E i \in 1..Len(coll) : coll[i].email = doc.email

\* the unique indexes on email and on srn: would inserting doc collide?
duplicateKey(coll, doc) ==
    \E i \in 1..Len(coll) : coll[i].email = doc.email \/ coll[i].srn = doc.srn

\* what student.save() throws for a new document: the schema's validation
\* runs first, then the insert meets the unique indexes
saveError(coll, doc) ==
    IF ~validateStudent(doc) THEN "ValidationError"
    ELSE IF duplicateKey(coll, doc) THEN "DuplicateKey"
    ELSE NoError

\* the positions of the documents matching { $or: [{ email }, { srn }] }
matchEmailOrSrn(coll, email, srn) ==
    {i \in 1..Len(coll) : coll[i].email = email \/ coll[i].srn = srn}

\* the positions of the documents matching { email }
matchEmail(coll, email) == {i \in 1..Len(coll) : coll[i].email = email}

\* a lookup that returns the first document
findByIdFirst(coll, id) == IF coll # <<>> THEN 1 ELSE 0

\* Student.findById: the position of the document, 0 when there is none
findById(coll, id) == IF id \in 1..Len(coll) THEN id ELSE 0

\* Student.find().sort({ createdAt: -1 }): newest first
findAllNewestFirst(coll) == [i \in 1..Len(coll) |-> coll[Len(coll) + 1 - i]]

-----------------------------------------------------------------------------
(* Course catalog *)

\* a lookup that falls back to the first course
findCourseOrFirst(courseId) ==
    IF \E i \in 1..Len(COURSES) : COURSES[i].id = courseId
    THEN CHOOSE i \in 1..Len(COURSES) : COURSES[i].id = courseId
    ELSE 1

\* COURSES.find(c => c.id === courseId): the position, 0 when there is none
findCourse(courseId) ==
    IF \E i \in 1..Len(COURSES) : COURSES[i].id = courseId
    THEN CHOOSE i \in 1..Len(COURSES) : COURSES[i].id = courseId
    ELSE 0

\* student.registeredCourses.map(c => c.id)
registeredIds(registered) == {registered[i].id : i \in 1..Len(registered)}

\* the handler without its check for an existing entry
isRegisteredNever(registered, courseId) == FALSE

\* student.registeredCourses.some(c => c.id === courseId)
isRegistered(registered, courseId) == courseId \in registeredIds(registered)

\* the catalog without the filter
availableCoursesAll(registered) == COURSES

\* COURSES.filter(c => !registeredIds.includes(c.id))
availableCourses(registered) ==
    SelectSeq(COURSES, LAMBDA c : c.id \notin registeredIds(registered))

-----------------------------------------------------------------------------
(* Sessions and responses *)

\* req.session.user is undefined
NoUser == [ _id |-> 0, name |-> <<>>, email |-> <<>>, srn |-> <<>> ]

\* a snapshot that leaves the SRN out
sessionUserNoSrn(student) ==
    [ _id |-> student._id, name |-> student.name,
      email |-> student.email, srn |-> <<>> ]

\* the snapshot stored in req.session.user at signup and at login
sessionUser(student) ==
    [ _id |-> student._id, name |-> student.name,
      email |-> student.email, srn |-> student.srn ]

\* ensureLoggedIn letting every request through
isLoggedInAlways(user) == TRUE

\* ensureLoggedIn: req.session?.user?._id
isLoggedIn(user) == user._id # 0

NoResponse == [kind |-> "none"]

\* res.redirect(to)
Redirect(to) == [kind |-> "redirect", status |-> 302, to |-> to]

\* res.render(view, locals)
Render(view, locals) ==
    [kind |-> "render", status |-> 200, view |-> view, locals |-> locals]

\* res.status(status).send(text)
Send(status, text) == [kind |-> "send", status |-> status, text |-> text]

\* a request that is not there
NoBody == [name |-> <<>>, email |-> <<>>, srn |-> <<>>, password |-> <<>>]

Idle ==
    [op |-> "none", pc |-> "done", sid |-> 0, uid |-> 0, body |-> NoBody,
     id |-> "", line |-> 0, err |-> NoError, res |-> NoResponse]

\* a request that has arrived: its cookie, its inputs and, for a handler
\* behind ensureLoggedIn, the req.session.user._id it read on arrival
Arrived(op, sid, uid, body, id) ==
    [op |-> op, pc |-> "run", sid |-> sid, uid |-> uid, body |-> body,
     id |-> id, line |-> 0, err |-> NoError, res |-> NoResponse]

\* the statement at the given line of app.js answers the request with res
Ended(q, line, res) == [q EXCEPT !.pc = "done", !.line = line, !.res = res]

\* the handler's catch caught err, logged it, and answers with res
Caught(q, err, line, res) ==
    [q EXCEPT !.pc = "done", !.line = line, !.err = err, !.res = res]

\* err was thrown outside any try: the handler's promise is rejected and
\* nothing answers the request
Unanswered(q, err) == [q EXCEPT !.pc = "unanswered", !.err = err]

-----------------------------------------------------------------------------
(* Handler logic *)

Null == "null"

\* a validation that reports the first failing field only
signupErrorsFirst(body) ==
    IF ~notEmpty(body.name) THEN <<[msg |-> "Name is required"]>>
    ELSE IF ~isEmail(body.email) THEN <<[msg |-> "Valid email is required"]>>
    ELSE IF ~notEmpty(body.srn) THEN <<[msg |-> "SRN is required"]>>
    ELSE IF ~isLength(body.password, MinPasswordLen)
         THEN <<[msg |-> "Password must be at least 6 characters"]>>
         ELSE <<>>

\* the validators of POST /signup, in their order (app.js:103-106)
signupErrors(body) ==
    (IF notEmpty(body.name) THEN <<>> ELSE <<[msg |-> "Name is required"]>>)
    \o (IF isEmail(body.email) THEN <<>>
        ELSE <<[msg |-> "Valid email is required"]>>)
    \o (IF notEmpty(body.srn) THEN <<>> ELSE <<[msg |-> "SRN is required"]>>)
    \o (IF isLength(body.password, MinPasswordLen) THEN <<>>
        ELSE <<[msg |-> "Password must be at least 6 characters"]>>)

\* the validators of POST /login, in their order (app.js:162-163)
loginErrors(body) ==
    (IF isEmail(body.email) THEN <<>> ELSE <<[msg |-> "Valid email required"]>>)
    \o (IF notEmpty(body.password) THEN <<>>
        ELSE <<[msg |-> "Password required"]>>)

\* const email = form.email.toLowerCase().trim()
signupEmail(body) == trim(toLowerCase(body.email))

\* const srn = form.srn.toUpperCase().trim()
signupSrn(body) == trim(toUpperCase(body.srn))

\* the message for the document that findOne returned
duplicateMsg(exists, email) ==
    IF exists.email = email THEN "Email already registered"
    ELSE "SRN already registered"

\* res.render('signup', { errors, form })
signupView(errors, form) == Render("signup", [errors |-> errors, form |-> form])

\* res.render('login', { error })
loginView(error) == Render("login", [error |-> error])

\* a login that tells an unknown email apart
unknownEmailViewLeaky == loginView("Email not registered")

\* if (!student) return res.render('login', ...)   (app.js:173)
unknownEmailView == loginView("Invalid email or password")

\* if (!ok) return res.render('login', ...)   (app.js:176)
wrongPasswordView == loginView("Invalid email or password")

\* the document that POST /signup constructs
signupDoc(coll, body) ==
    newStudent(Len(coll) + 1, trim(body.name), signupEmail(body),
               signupSrn(body), bcryptHash(body.password, SALT_ROUNDS))

\* an array element that is named by its id
courseEntryIdAsName(courseId) == [id |-> courseId, name |-> courseId]

\* the array element that POST /courses/:id/register pushes
courseEntry(courseId) ==
    [id |-> COURSES[findCourse(courseId)].id,
     name |-> COURSES[findCourse(courseId)].name]

\* an insertion at the front of the array
pushFront(registered, entry) == <<entry>> \o registered

\* an assignment that leaves only the new element
pushReplace(registered, entry) == <<entry>>

\* registeredCourses.push(entry)
push(registered, entry) == Append(registered, entry)

\* a slot is free when its last request has been answered
Free(r) == req[r].pc = "done"

At(r, op, pc) == req[r].op = op /\ req[r].pc = pc

-----------------------------------------------------------------------------
(* POST /signup *)

\* validation, then the existence query is issued
PostSignup(r, sid, body) ==
    /\ Free(r)
    /\ LET q == Arrived("signup", sid, 0, body, "")
           errors == signupErrors(body)
       IN  req' = [req EXCEPT ![r] =
                IF errors # <<>> THEN Ended(q, 113, signupView(errors, body))
                ELSE [q EXCEPT !.pc = "findOne"]]
    /\ UNCHANGED <<students, sessions>>

\* Student.findOne({ $or: [{ email }, { srn }] }) answers; when several
\* documents match, the database returns any one of them
SignupFindOne(r) ==
    /\ At(r, "signup", "findOne")
    /\ LET q == req[r]
           email == signupEmail(q.body)
           found == matchEmailOrSrn(students, email, signupSrn(q.body))
       IN  \E up \in BOOLEAN :
             \/ /\ ~up
                /\ req' = [req EXCEPT ![r] =
                     Caught(q, "StoreError", 148,
                            signupView(<<[msg |-> "Server error"]>>, q.body))]
             \/ /\ up
                /\ found = {}
                /\ req' = [req EXCEPT ![r].pc = "save"]
             \/ /\ up
                /\ \E i \in found :
                     req' = [req EXCEPT ![r] =
                       Ended(q, 123, signupView(
                         <<[msg |-> duplicateMsg(students[i], email)]>>, q.body))]
    /\ UNCHANGED <<students, sessions>>

\* bcrypt.hash, new Student, student.save(), then the session and the
\* redirect; a validation error, a duplicate key and a store failure all
\* land in the catch
SignupSave(r) ==
    /\ At(r, "signup", "save")
    /\ LET q == req[r]
           doc == signupDoc(students, q.body)
           err == saveError(students, doc)
       IN  \E up \in BOOLEAN :
             IF up /\ err = NoError
             THEN /\ students' = Append(students, doc)
                  /\ sessions' = [sessions EXCEPT ![q.sid] = sessionUser(doc)]
                  /\ req' = [req EXCEPT ![r] =
                               Ended(q, 145, Redirect("/courses"))]
             ELSE /\ req' = [req EXCEPT ![r] =
                       Caught(q, IF err # NoError THEN err ELSE "StoreError", 148,
                              signupView(<<[msg |-> "Server error"]>>, q.body))]
                  /\ UNCHANGED <<students, sessions>>

-----------------------------------------------------------------------------
(* POST /login, GET /logout *)

PostLogin(r, sid, body) ==
    /\ Free(r)
    /\ LET q == Arrived("login", sid, 0, body, "")
           errors == loginErrors(body)
       IN  req' = [req EXCEPT ![r] =
                IF errors # <<>> THEN Ended(q, 167, loginView(errors[1].msg))
                ELSE [q EXCEPT !.pc = "findOne"]]
    /\ UNCHANGED <<students, sessions>>

\* Student.findOne({ email }) answers, then bcrypt.compare
LoginFindOne(r) ==
    /\ At(r, "login", "findOne")
    /\ LET q == req[r]
           found == matchEmail(students, toLowerCase(q.body.email))
       IN  \E up \in BOOLEAN :
             \/ /\ ~up
                /\ req' = [req EXCEPT ![r] =
                     Caught(q, "StoreError", 188, loginView("Server error"))]
                /\ UNCHANGED sessions
             \/ /\ up
                /\ found = {}
                /\ req' = [req EXCEPT ![r] = Ended(q, 173, unknownEmailView)]
                /\ UNCHANGED sessions
             \/ /\ up
                /\ \E i \in found :
                     IF bcryptCompare(q.body.password, students[i].passwordHash)
                     THEN /\ sessions' = [sessions EXCEPT ![q.sid] =
                                            sessionUser(students[i])]
                          /\ req' = [req EXCEPT ![r] =
                               Ended(q, 185, Redirect("/courses"))]
                     ELSE /\ req' = [req EXCEPT ![r] =
                               Ended(q, 176, wrongPasswordView)]
                          /\ UNCHANGED sessions
    /\ UNCHANGED students

\* a logout that redirects and keeps the session
GetLogoutKeepSession(r, sid) ==
    /\ Free(r)
    /\ req' = [req EXCEPT ![r] =
                 Ended(Arrived("logout", sid, 0, NoBody, ""), 195, Redirect("/login"))]
    /\ UNCHANGED <<students, sessions>>

\* req.session.destroy(() => res.redirect('/login'))
GetLogout(r, sid) ==
    /\ Free(r)
    /\ sessions' = [sessions EXCEPT ![sid] = NoUser]
    /\ req' = [req EXCEPT ![r] =
                 Ended(Arrived("logout", sid, 0, NoBody, ""), 195, Redirect("/login"))]
    /\ UNCHANGED students

\* the session cookie's maxAge passes
SessionExpire(sid) ==
    /\ isLoggedIn(sessions[sid])
    /\ sessions' = [sessions EXCEPT ![sid] = NoUser]
    /\ UNCHANGED <<students, req>>

-----------------------------------------------------------------------------
(* GET /courses, POST /courses/:id/register, GET /my-courses *)

\* ensureLoggedIn, then the lookup is issued
GetCourses(r, sid) ==
    /\ Free(r)
    /\ LET q == Arrived("courses", sid, sessions[sid]._id, NoBody, "")
       IN  req' = [req EXCEPT ![r] =
                IF isLoggedIn(sessions[sid]) THEN [q EXCEPT !.pc = "findById"]
                ELSE Ended(q, 82, Redirect("/login"))]
    /\ UNCHANGED <<students, sessions>>

\* Student.findById(...).lean() answers; the handler has no try
CoursesFindById(r) ==
    /\ At(r, "courses", "findById")
    /\ LET q == req[r]
           i == findById(students, q.uid)
       IN  \E up \in BOOLEAN :
             req' = [req EXCEPT ![r] =
               IF up /\ i # 0
               THEN Ended(q, 205, Render("courses",
                      [courses |-> availableCourses(students[i].registeredCourses),
                       registered |-> students[i].registeredCourses]))
               ELSE Unanswered(q, IF up THEN "TypeError" ELSE "StoreError")]
    /\ UNCHANGED <<students, sessions>>

\* ensureLoggedIn, the catalog lookup, then the student lookup is issued
PostRegister(r, sid, courseId) ==
    /\ Free(r)
    /\ LET q == Arrived("register", sid, sessions[sid]._id, NoBody, courseId)
       IN  req' = [req EXCEPT ![r] =
                IF ~isLoggedIn(sessions[sid]) THEN Ended(q, 82, Redirect("/login"))
                ELSE IF findCourse(courseId) = 0
                     THEN Ended(q, 216, Send(400, "Invalid course"))
                     ELSE [q EXCEPT !.pc = "findById"]]
    /\ UNCHANGED <<students, sessions>>

\* Student.findById answers; the handler checks for the course and pushes
\* it on its copy of the document
RegisterFindById(r) ==
    /\ At(r, "register", "findById")
    /\ LET q == req[r]
           i == findById(students, q.uid)
       IN  \E up \in BOOLEAN :
             req' = [req EXCEPT ![r] =
               IF ~up \/ i = 0
               THEN Caught(q, IF up THEN "TypeError" ELSE "StoreError", 231,
                           Send(500, "Server error"))
               ELSE IF isRegistered(students[i].registeredCourses, q.id)
                    THEN Ended(q, 222, Redirect("/my-courses"))
                    ELSE [q EXCEPT !.pc = "save"]]
    /\ UNCHANGED <<students, sessions>>

\* student.save(): the pushed element reaches the database as a $push on
\* the stored array
RegisterSave(r) ==
    /\ At(r, "register", "save")
    /\ LET q == req[r]
           i == findById(students, q.uid)
       IN  \E up \in BOOLEAN :
             IF up /\ i # 0
             THEN /\ students' = [students EXCEPT ![i].registeredCourses =
                                    push(@, courseEntry(q.id))]
                  /\ req' = [req EXCEPT ![r] =
                               Ended(q, 228, Redirect("/my-courses"))]
             ELSE /\ req' = [req EXCEPT ![r] =
                       Caught(q, IF up THEN "TypeError" ELSE "StoreError", 231,
                              Send(500, "Server error"))]
                  /\ UNCHANGED students
    /\ UNCHANGED sessions

GetMyCourses(r, sid) ==
    /\ Free(r)
    /\ LET q == Arrived("mycourses", sid, sessions[sid]._id, NoBody, "")
       IN  req' = [req EXCEPT ![r] =
                IF isLoggedIn(sessions[sid]) THEN [q EXCEPT !.pc = "findById"]
                ELSE Ended(q, 82, Redirect("/login"))]
    /\ UNCHANGED <<students, sessions>>

\* Student.findById(...).lean() answers; the handler has no try
MyCoursesFindById(r) ==
    /\ At(r, "mycourses", "findById")
    /\ LET q == req[r]
           i == findById(students, q.uid)
       IN  \E up \in BOOLEAN :
             req' = [req EXCEPT ![r] =
               IF up /\ i # 0
               THEN Ended(q, 240, Render("mycourses",
                      [registered |-> students[i].registeredCourses]))
               ELSE Unanswered(q, IF up THEN "TypeError" ELSE "StoreError")]
    /\ UNCHANGED <<students, sessions>>

-----------------------------------------------------------------------------
(* GET /students and the pages without a store operation *)

GetStudents(r, sid) ==
    /\ Free(r)
    /\ req' = [req EXCEPT ![r] =
                 [Arrived("students", sid, 0, NoBody, "") EXCEPT !.pc = "find"]]
    /\ UNCHANGED <<students, sessions>>

\* Student.find().sort({ createdAt: -1 }).lean() answers
StudentsFind(r) ==
    /\ At(r, "students", "find")
    /\ \E up \in BOOLEAN :
         req' = [req EXCEPT ![r] =
           IF up
           THEN Ended(req[r], 249, Render("students",
                  [students |-> findAllNewestFirst(students)]))
           ELSE Caught(req[r], "StoreError", 252, Send(500, "Server error"))]
    /\ UNCHANGED <<students, sessions>>

\* GET /, GET /signup, GET /login and the 404 handler
pageResponse(path) ==
    CASE path = "/" -> Redirect("/signup")
      [] path = "/signup" -> signupView(<<>>, <<>>)
      [] path = "/login" -> loginView(Null)
      [] OTHER -> Send(404, "404 - Not Found")

pageLine(path) ==
    CASE path = "/" -> 91 [] path = "/signup" -> 96
      [] path = "/login" -> 155 [] OTHER -> 258

GetPage(r, sid, path) ==
    /\ Free(r)
    /\ req' = [req EXCEPT ![r] =
                 Ended(Arrived("page", sid, 0, NoBody, path), pageLine(path),
                       pageResponse(path))]
    /\ UNCHANGED <<students, sessions>>

-----------------------------------------------------------------------------
(* Inputs *)

a_x_c == <<"a", "@", "x", ".", "c">>
A_x_c == <<"A", "@", "x", ".", "c">>
B_x_c == <<"B", "@", "x", ".", "c">>
c_x_c == <<"c", "@", "x", ".", "C">>

\* well-formed addresses of NumAccounts mailboxes
GoodEmails == {<<a_x_c, B_x_c, c_x_c>>[i] : i \in 1..NumAccounts}

\* those, another spelling of the first one, and a malformed address
Emails == GoodEmails \cup {A_x_c, <<"a", "b">>}

\* SRNs that survive trimming, a blank one and an empty one
GoodSrns == {<<<<"s", "1">>, <<" ", "S", "2">>, <<"s", "3">>>>[i] : i \in 1..NumAccounts}
Srns == GoodSrns \cup {<<" ">>, <<>>}

Names == {<<>>, <<"A", " ">>}

secret == <<"s", "e", "c", "r", "e", "t">>
Passwords == {<<>>, <<"a", "b", "c">>, secret}

SignupBodies ==
    [name : Names, email : Emails, srn : Srns, password : Passwords \ {<<>>}]

LoginBodies ==
    [name : {<<>>}, email : Emails, srn : {<<>>}, password : Passwords]

\* the ids of the first catalog courses, and an id that is not in the catalog
CourseIds == {COURSES[i].id : i \in 1..NumCourseInputs} \cup {"no-such"}

Paths == {"/", "/signup", "/login", "/nowhere"}

\* the forms that pass validation and the schema
GoodSignupBodies ==
    [name : {<<"A", " ">>}, email : GoodEmails \cup {A_x_c}, srn : GoodSrns,
     password : {secret}]

\* two students, for the runs that are about courses
TwoSignupBodies ==
    { [name |-> <<"A", " ">>, email |-> a_x_c, srn |-> <<"s", "1">>,
       password |-> secret],
      [name |-> <<"A", " ">>, email |-> B_x_c, srn |-> <<" ", "S", "2">>,
       password |-> secret] }

TwoLoginBodies ==
    [name : {<<>>}, email : {a_x_c, B_x_c}, srn : {<<>>},
     password : {secret, <<"s", "e", "c", "r", "e", "T">>}]

\* the request slots and the session cookies
Reqs == {1}
ConcReqs == {1, 2}
Sids == {1}

-----------------------------------------------------------------------------
(* Specifications *)

Init ==
    /\ students = <<>>
    /\ sessions = [sid \in Sids |-> NoUser]
    /\ req = [r \in ConcReqs |-> Idle]

\* the continuation of a request that does not register a course
Continue(r) ==
    \/ SignupFindOne(r)
    \/ SignupSave(r)
    \/ LoginFindOne(r)
    \/ CoursesFindById(r)
    \/ MyCoursesFindById(r)
    \/ StudentsFind(r)

\* the continuation of a registration
ContinueRegister(r) ==
    \/ RegisterFindById(r)
    \/ RegisterSave(r)

\* a request arrives on slot r with cookie sid
Arrive(r, sid, signups, logins, ids, paths) ==
    \/ \E body \in signups : PostSignup(r, sid, body)
    \/ \E body \in logins : PostLogin(r, sid, body)
    \/ GetLogout(r, sid)
    \/ GetCourses(r, sid)
    \/ \E courseId \in ids : PostRegister(r, sid, courseId)
    \/ GetMyCourses(r, sid)
    \/ GetStudents(r, sid)
    \/ \E path \in paths : GetPage(r, sid, path)

\* one request at a time; every form, no catalog course
Next ==
    \/ \E r \in Reqs, sid \in Sids :
         Arrive(r, sid, SignupBodies, LoginBodies, {"no-such"}, Paths)
    \/ \E r \in Reqs : Continue(r)
    \/ \E sid \in Sids : SessionExpire(sid)

Spec == Init /\ [][Next]_vars

\* one request at a time; two students, the catalog courses
NextCourses ==
    \/ \E r \in Reqs, sid \in Sids :
         Arrive(r, sid, TwoSignupBodies, TwoLoginBodies, CourseIds, {"/"})
    \/ \E r \in Reqs : Continue(r) \/ ContinueRegister(r)
    \/ \E sid \in Sids : SessionExpire(sid)

SpecCourses == Init /\ [][NextCourses]_vars

\* signups, two in flight
NextConc ==
    \/ \E r \in ConcReqs, sid \in Sids, body \in GoodSignupBodies :
         PostSignup(r, sid, body)
    \/ \E r \in ConcReqs : SignupFindOne(r) \/ SignupSave(r)

SpecConc == Init /\ [][NextConc]_vars

\* registrations, two in flight; two students
NextConcCourses ==
    \/ \E r \in ConcReqs, sid \in Sids :
         \/ \E body \in TwoSignupBodies : PostSignup(r, sid, body)
         \/ \E courseId \in CourseIds : PostRegister(r, sid, courseId)
    \/ \E r \in ConcReqs :
         SignupFindOne(r) \/ SignupSave(r) \/ ContinueRegister(r)

SpecConcCourses == Init /\ [][NextConcCourses]_vars

-----------------------------------------------------------------------------
(* Properties *)

\* an email as the data model compares it: trimmed, lower-cased
NormalEmail(e) == toLowerCase(trim(e))

\* an SRN as the data model compares it: trimmed, upper-cased
NormalSrn(n) == toUpperCase(trim(n))

\* a signup request that is in flight or was answered
IsSignup(r) == req[r].op = "signup"

\* C1: whatever the interleaving of signups, no two persisted students have
\* the same normalized email, and no two have the same normalized SRN.
C1_UniqueEmailAndSrn ==
    \A i, j \in 1..Len(students) :
        i # j =>
            /\ NormalEmail(students[i].email) # NormalEmail(students[j].email)
            /\ NormalSrn(students[i].srn) # NormalSrn(students[j].srn)

\* two signups with the same SRN both passed the existence check, and one
\* of them has saved its student
C1_Witness ==
    \E r1, r2 \in ConcReqs :
        /\ r1 # r2
        /\ IsSignup(r1) /\ req[r1].line = 145
        /\ IsSignup(r2) /\ req[r2].pc = "save"
        /\ NormalSrn(req[r1].body.srn) = NormalSrn(req[r2].body.srn)
        /\ NormalEmail(req[r1].body.email) # NormalEmail(req[r2].body.email)
        /\ \E i \in 1..Len(students) :
              students[i].srn = NormalSrn(req[r2].body.srn)

\* the number of entries for course id in a registeredCourses array
CountId(registered, id) ==
    Cardinality({k \in 1..Len(registered) : registered[k].id = id})

\* a request arrives on slot r in this step
Arrives(r) == Free(r) /\ req'[r] # req[r]

\* the handler of request r runs on in this step
Continues(r) == ~Free(r) /\ req'[r] # req[r]

\* C2: a registration for a course the student already has (the second of
\* two successive registrations of the same catalog id) changes nothing in
\* the store, leaves exactly one entry for that id, and redirects to
\* /my-courses (a failure of the store during the lookup is answered with
\* the 500 response instead, the store still unchanged).
C2_RegisterTwice ==
    [][\A r \in Reqs :
        ( /\ At(r, "register", "findById")
          /\ Continues(r)
          /\ CountId(students[req[r].uid].registeredCourses, req[r].id) >= 1 )
        => ( /\ req'[r].pc = "done"
             /\ students' = students
             /\ CountId(students'[req[r].uid].registeredCourses, req[r].id) = 1
             /\ req'[r].err # "StoreError"
                  => req'[r].res = Redirect("/my-courses") )
      ]_vars

\* the second registration of a course was answered by the early return
C2_Witness ==
    \E r \in Reqs :
        /\ req[r].op = "register" /\ req[r].line = 222
        /\ req[r].res = Redirect("/my-courses")
        /\ CountId(students[req[r].uid].registeredCourses, req[r].id) = 1

\* the routes behind ensureLoggedIn
Protected == {"courses", "mycourses", "register"}

\* C3: GET /courses, GET /my-courses and POST /courses/:id/register made
\* while the session has no user id are answered at once with a redirect to
\* /login; no error is raised and neither the store nor the session changes.
C3_AnonymousRedirect ==
    [][\A r \in Reqs :
        ( /\ Arrives(r)
          /\ req'[r].op \in Protected
          /\ sessions[req'[r].sid]._id = 0 )
        => ( /\ req'[r].pc = "done"
             /\ req'[r].res = Redirect("/login")
             /\ req'[r].err = NoError
             /\ students' = students
             /\ sessions' = sessions )
      ]_vars

\* a registration for a catalog course was turned away although a student
\* exists
C3_Witness ==
    \E r \in Reqs :
        /\ req[r].op = "register" /\ req[r].id = COURSES[1].id
        /\ req[r].res = Redirect("/login")
        /\ sessions[req[r].sid]._id = 0
        /\ students # <<>>

\* a signup form as the claims call it valid: non-empty name, well-formed
\* email, non-empty srn, password of at least 6 characters
ValidForm(body) ==
    /\ Len(body.name) > 0
    /\ isEmail(body.email)
    /\ Len(body.srn) > 0
    /\ Len(body.password) >= MinPasswordLen

EmailTaken(body) ==
    \E i \in 1..Len(students) :
        NormalEmail(students[i].email) = NormalEmail(body.email)

SrnTaken(body) ==
    \E i \in 1..Len(students) :
        NormalSrn(students[i].srn) = NormalSrn(body.srn)

\* this step persists exactly one new student for body, with a password
\* hash that verifies the password and is not the password, makes the
\* session that student's, and redirects request r to /courses
SignupSucceeds(r, body) ==
    /\ req'[r].res = Redirect("/courses")
    /\ Len(students') = Len(students) + 1
    /\ SubSeq(students', 1, Len(students)) = students
    /\ LET new == students'[Len(students')]
       IN  /\ new.email = NormalEmail(body.email)
           /\ new.srn = NormalSrn(body.srn)
           /\ new.passwordHash # body.password
           /\ bcryptCompare(body.password, new.passwordHash)
           /\ sessions'[req[r].sid]._id = new._id
           /\ sessions'[req[r].sid].email = new.email

\* C4, as claimed: every valid signup form whose email and SRN no student
\* uses is answered with success (the store answering).
C4_ValidSignupSucceeds ==
    [][\A r \in Reqs :
        ( /\ IsSignup(r) /\ Continues(r) /\ req'[r].pc = "done"
          /\ ValidForm(req[r].body)
          /\ ~EmailTaken(req[r].body) /\ ~SrnTaken(req[r].body)
          /\ req'[r].err # "StoreError" )
        => SignupSucceeds(r, req[r].body)
      ]_vars

\* C5, as claimed: a signup whose email is taken is answered with 'Email
\* already registered', whoever holds its SRN; one whose email is free and
\* whose SRN is taken with 'SRN already registered'; no student is created.
C5_EmailCheckedFirst ==
    [][\A r \in Reqs :
        ( /\ At(r, "signup", "findOne") /\ Continues(r)
          /\ req'[r].err # "StoreError"
          /\ EmailTaken(req[r].body) \/ SrnTaken(req[r].body) )
        => ( /\ req'[r].pc = "done"
             /\ students' = students
             /\ req'[r].res = signupView(
                   <<[msg |-> IF EmailTaken(req[r].body)
                              THEN "Email already registered"
                              ELSE "SRN already registered"]>>, req[r].body) )
      ]_vars

\* some student has the login form's email and password
CredentialsMatch(body) ==
    \E i \in 1..Len(students) :
        /\ NormalEmail(students[i].email) = NormalEmail(body.email)
        /\ bcryptCompare(body.password, students[i].passwordHash)

\* C6: a well-formed login that matches no student's email and password,
\* be it for an unknown email or for a wrong password, renders the login
\* form with exactly 'Invalid email or password' and leaves the session as
\* it was (the store answering the lookup).
C6_SameLoginFailure ==
    [][\A r \in Reqs :
        ( /\ At(r, "login", "findOne") /\ Continues(r)
          /\ req'[r].err # "StoreError"
          /\ ~CredentialsMatch(req[r].body) )
        => ( /\ req'[r].pc = "done"
             /\ req'[r].res = Render("login",
                                     [error |-> "Invalid email or password"])
             /\ sessions' = sessions
             /\ students' = students )
      ]_vars

\* a login with a wrong password for an existing email was turned down
\* while another login, for an email of no student, would be too
C6_Witness ==
    \E r \in Reqs :
        /\ req[r].op = "login" /\ req[r].line = 176
        /\ EmailTaken(req[r].body)
        /\ ~CredentialsMatch(req[r].body)
        /\ \E body \in LoginBodies :
              loginErrors(body) = <<>> /\ ~EmailTaken(body)

\* C7: for every student, and in every page that GET /courses rendered,
\* the list of available courses holds no course id that is in the
\* student's registeredCourses.
C7_AvailableExcludesRegistered ==
    /\ \A i \in 1..Len(students) :
          LET registered == students[i].registeredCourses
              available == availableCourses(registered)
          IN  \A k \in 1..Len(available) :
                  CountId(registered, available[k].id) = 0
    /\ \A r \in Reqs :
          (req[r].op = "courses" /\ req[r].res.kind = "render") =>
              LET registered == students[req[r].uid].registeredCourses
                  available == req[r].res.locals.courses
              IN  \A k \in 1..Len(available) :
                      CountId(registered, available[k].id) = 0

\* the page of a student with a registered course lists fewer courses
\* than the catalog
C7_Witness ==
    \E r \in Reqs :
        /\ req[r].op = "courses" /\ req[r].res.kind = "render"
        /\ students[req[r].uid].registeredCourses # <<>>
        /\ Len(req[r].res.locals.courses) < Len(COURSES)

CatalogIds == {COURSES[i].id : i \in 1..Len(COURSES)}

\* C8: POST /courses/:id/register by a logged-in student with an id that
\* is not in the catalog is answered at once with status 400, and every
\* student's registeredCourses stays as it was.
C8_InvalidCourse400 ==
    [][\A r \in Reqs :
        ( /\ Arrives(r)
          /\ req'[r].op = "register"
          /\ sessions[req'[r].sid]._id # 0
          /\ req'[r].id \notin CatalogIds )
        => ( /\ req'[r].pc = "done"
             /\ req'[r].res.kind = "send"
             /\ req'[r].res.status = 400
             /\ students' = students )
      ]_vars

\* a logged-in student was answered 400
C8_Witness ==
    \E r \in Reqs :
        /\ req[r].op = "register" /\ req[r].uid # 0
        /\ req[r].id \notin CatalogIds
        /\ req[r].res.kind = "send" /\ req[r].res.status = 400

\* request r is a signup or a login that is answered in this step
AuthAnswered(r) ==
    /\ Arrives(r) \/ Continues(r)
    /\ req'[r].op \in {"signup", "login"}
    /\ req'[r].pc = "done"

\* C9: the session of a cookie gets a user (or another user) only in the
\* step in which a signup or a login on that cookie is answered with the
\* redirect to /courses; a signup or login answered otherwise leaves every
\* session as it was; GET /logout is answered with the redirect to /login
\* and leaves its session without a user, whether or not it had one; and
\* as long as the session has no user the protected routes redirect to
\* /login.
C9_SessionMachine ==
    [][ /\ \A sid \in Sids :
            (sessions'[sid] # sessions[sid] /\ sessions'[sid]._id # 0) =>
                \E r \in Reqs :
                    /\ AuthAnswered(r)
                    /\ req'[r].sid = sid
                    /\ req'[r].res = Redirect("/courses")
        /\ \A r \in Reqs :
            (AuthAnswered(r) /\ req'[r].res # Redirect("/courses")) =>
                sessions' = sessions
        /\ \A r \in Reqs :
            (Arrives(r) /\ req'[r].op = "logout") =>
                /\ req'[r].pc = "done"
                /\ req'[r].res = Redirect("/login")
                /\ sessions'[req'[r].sid]._id = 0
        /\ \A r \in Reqs :
            ( /\ Arrives(r) /\ req'[r].op \in Protected
              /\ sessions[req'[r].sid]._id = 0 ) =>
                /\ req'[r].res = Redirect("/login")
                /\ sessions'[req'[r].sid]._id = 0
      ]_vars

\* a student has signed up and logged out again
C9_Witness ==
    \E r \in Reqs :
        /\ req[r].op = "logout" /\ req[r].res = Redirect("/login")
        /\ sessions[req[r].sid]._id = 0
        /\ students # <<>>

\* the catalog's name for a course id
CatalogName(id) ==
    (CHOOSE c \in {COURSES[i] : i \in 1..Len(COURSES)} : c.id = id).name

\* the catalog's position of a course id
CatalogPos(id) == CHOOSE i \in 1..Len(COURSES) : COURSES[i].id = id

\* list holds exactly the catalog courses that are not in registered, in
\* catalog order
IsRestOfCatalog(list, registered) ==
    /\ \A k \in 1..Len(list) :
          /\ list[k].id \in CatalogIds
          /\ list[k] = COURSES[CatalogPos(list[k].id)]
    /\ \A k, m \in 1..Len(list) :
          k < m => CatalogPos(list[k].id) < CatalogPos(list[m].id)
    /\ {list[k].id : k \in 1..Len(list)}
         = CatalogIds \ {registered[k].id : k \in 1..Len(registered)}
    /\ Len(list) = Len(COURSES) - Len(registered)

\* each student's registeredCourses holds catalog courses under their
\* catalog names, one entry each
RegisteredFromCatalog ==
    \A i \in 1..Len(students) :
        LET registered == students[i].registeredCourses
        IN  \A k \in 1..Len(registered) :
              /\ registered[k].id \in CatalogIds
              /\ registered[k].name = CatalogName(registered[k].id)
              /\ CountId(registered, registered[k].id) = 1

\* what the pages show of the student they were rendered for
PagesShowStudent ==
    \A r \in Reqs :
        LET registered == students[req[r].uid].registeredCourses
        IN  /\ (req[r].op = "mycourses" /\ req[r].res.kind = "render") =>
                  req[r].res.locals.registered = registered
            /\ (req[r].op = "courses" /\ req[r].res.kind = "render") =>
                  /\ IsRestOfCatalog(req[r].res.locals.courses, registered)
                  /\ registered = <<>> => req[r].res.locals.courses = COURSES

\* C10: one request at a time.  A student's registeredCourses holds the k
\* catalog courses registered so far, once each, under their catalog names;
\* each registration that is saved appends its course at the end (so the
\* order is the order of registration), changes no other student, and
\* redirects to /my-courses; GET /my-courses shows exactly that sequence
\* and GET /courses exactly the other 5-k catalog entries in catalog order
\* (all 5 for a student who has just signed up).
C10_EndToEnd ==
    /\ [](RegisteredFromCatalog /\ PagesShowStudent)
    /\ [][\A r \in Reqs :
            ( /\ At(r, "register", "save") /\ Continues(r)
              /\ req'[r].err = NoError )
            => ( /\ req'[r].res = Redirect("/my-courses")
                 /\ Len(students') = Len(students)
                 /\ \A i \in 1..Len(students) :
                       students'[i] =
                         IF i = req[r].uid
                         THEN [students[i] EXCEPT !.registeredCourses =
                                Append(@, [id |-> req[r].id,
                                           name |-> CatalogName(req[r].id)])]
                         ELSE students[i] )
        ]_vars

\* a student registered the second catalog course, then the first, and
\* the /courses page lists the other three
C10_Witness ==
    \E r \in Reqs :
        /\ req[r].op = "courses" /\ req[r].res.kind = "render"
        /\ Len(req[r].res.locals.courses) = Len(COURSES) - 2
        /\ LET registered == students[req[r].uid].registeredCourses
           IN  /\ Len(registered) = 2
               /\ registered[1].id = COURSES[2].id
               /\ registered[2].id = COURSES[1].id

\* C11, as claimed: two registrations in flight for the same student and
\* the same course, each running its lookup, its check and its save as
\* separate steps: no student's registeredCourses ever holds two entries
\* with the same course id.
C11_NoDuplicateEntry ==
    \A i \in 1..Len(students) :
        \A id \in CatalogIds :
            CountId(students[i].registeredCourses, id) <= 1

\* the two messages of a signup turned down for a duplicate
DuplicateViews(body) ==
    { signupView(<<[msg |-> m]>>, body) :
        m \in {"Email already registered", "SRN already registered"} }

\* C12, as claimed: a signup that is answered while a student holds its
\* email or its SRN, be the collision found by the existence check or by
\* the database at save time after a concurrent signup saved first, gets
\* one of the two duplicate messages; no student is created and the
\* session stays as it was (the store answering).
C12_DuplicateMessage ==
    [][\A r \in ConcReqs :
        ( /\ IsSignup(r) /\ Continues(r) /\ req'[r].pc = "done"
          /\ req'[r].err # "StoreError"
          /\ EmailTaken(req[r].body) \/ SrnTaken(req[r].body) )
        => ( /\ students' = students
             /\ sessions' = sessions
             /\ req'[r].res \in DuplicateViews(req[r].body) )
      ]_vars

\* C13, as claimed: a request whose store operation failed has been
\* answered, with a rendered error or an HTTP error response; none is left
\* without a response.
C13_FailureAnswered ==
    \A r \in Reqs :
        req[r].err = "StoreError" =>
            /\ req[r].pc = "done"
            /\ req[r].res.kind \in {"render", "send"}

IsPrefix(s, t) == Len(s) <= Len(t) /\ SubSeq(t, 1, Len(s)) = s

\* in this step every student that was stored stays stored, with the same
\* name, email, srn, passwordHash and createdAt, and with its
\* registeredCourses extended at the end, if changed at all
StudentsKept ==
    /\ Len(students') >= Len(students)
    /\ \A i \in 1..Len(students) :
          /\ students'[i] =
                [students[i] EXCEPT
                   !.registeredCourses = students'[i].registeredCourses]
          /\ IsPrefix(students[i].registeredCourses,
                      students'[i].registeredCourses)

\* this step adds one student at the end and changes no other
OneStudentAdded ==
    /\ Len(students') = Len(students) + 1
    /\ SubSeq(students', 1, Len(students)) = students

\* this step adds one entry to one student's registeredCourses and
\* changes nothing else
OneEntryAppended ==
    /\ Len(students') = Len(students)
    /\ \E i \in 1..Len(students) :
          /\ Len(students'[i].registeredCourses)
                = Len(students[i].registeredCourses) + 1
          /\ \A j \in 1..Len(students) : j # i => students'[j] = students[j]

\* C14: the store changes only when a signup is answered with the
\* redirect to /courses, which adds one student, and when a registration
\* is answered with the redirect to /my-courses, which appends one entry to
\* one student's registeredCourses.  Every other step (login, logout, GET
\* routes, a signup or a registration answered otherwise) leaves the store
\* unchanged; no student is deleted, name, email, srn, passwordHash and
\* createdAt never change, and each registeredCourses keeps its earlier
\* value as a prefix.
C14_StoreFrame ==
    [][ /\ StudentsKept
        /\ students' # students =>
              \E r \in Reqs :
                /\ Continues(r) /\ req'[r].pc = "done"
                /\ \/ /\ req[r].op = "signup"
                      /\ req'[r].res = Redirect("/courses")
                      /\ OneStudentAdded
                   \/ /\ req[r].op = "register"
                      /\ req'[r].res = Redirect("/my-courses")
                      /\ OneEntryAppended
        /\ \A r \in Reqs :
              ( /\ Arrives(r) \/ Continues(r)
                /\ \/ req'[r].op \notin {"signup", "register"}
                   \/ req'[r].pc # "done"
                   \/ req'[r].err # NoError
                   \/ req'[r].res.kind # "redirect" )
              => students' = students
      ]_vars

\* the second of two students has registered a second course
C14_Witness ==
    \E r \in Reqs :
        /\ req[r].op = "register" /\ req[r].line = 228
        /\ Len(students) = 2 /\ req[r].uid = 2
        /\ Len(students[2].registeredCourses) = 2

\* the fields of a signup form that make it invalid
FailingFields(body) ==
    {f \in {"name", "email", "srn", "password"} :
        \/ f = "name" /\ Len(body.name) = 0
        \/ f = "email" /\ ~isEmail(body.email)
        \/ f = "srn" /\ Len(body.srn) = 0
        \/ f = "password" /\ Len(body.password) < MinPasswordLen}

FieldMsg(f) ==
    CASE f = "name" -> "Name is required"
      [] f = "email" -> "Valid email is required"
      [] f = "srn" -> "SRN is required"
      [] f = "password" -> "Password must be at least 6 characters"

\* C15: a POST /signup with an invalid form (empty name, malformed email,
\* empty srn or password shorter than 6 characters) is answered in the
\* step in which it arrives, so without any store lookup or write: no
\* student is created, the session stays as it was, and the signup form is
\* rendered with exactly one error for each failing field.
C15_InvalidSignup ==
    [][\A r \in Reqs :
        ( /\ Arrives(r) /\ req'[r].op = "signup"
          /\ ~ValidForm(req'[r].body) )
        => ( /\ req'[r].pc = "done"
             /\ req'[r].err = NoError
             /\ students' = students
             /\ sessions' = sessions
             /\ req'[r].res.kind = "render"
             /\ req'[r].res.view = "signup"
             /\ LET errors == req'[r].res.locals.errors
                    failing == FailingFields(req'[r].body)
                IN  /\ Len(errors) = Cardinality(failing)
                    /\ {errors[k].msg : k \in 1..Len(errors)}
                         = {FieldMsg(f) : f \in failing} )
      ]_vars

\* a logged-in student sent a form with three failing fields and got
\* three errors
C15_Witness ==
    \E r \in Reqs :
        /\ req[r].op = "signup" /\ req[r].line = 113
        /\ Cardinality(FailingFields(req[r].body)) = 3
        /\ Len(req[r].res.locals.errors) = 3
        /\ sessions[req[r].sid]._id # 0

\* C16, as claimed: the form that a signup answered with the signup view
\* (invalid form, duplicate or server error) hands to the view has the
\* submitted name, email and srn, and does not hold the submitted password.
C16_FormWithoutPassword ==
    \A r \in Reqs :
        (IsSignup(r) /\ req[r].pc = "done" /\ req[r].res.kind = "render") =>
            LET form == req[r].res.locals.form
            IN  /\ form.name = req[r].body.name
                /\ form.email = req[r].body.email
                /\ form.srn = req[r].body.srn
                /\ \/ "password" \notin DOMAIN form
                   \/ form.password # req[r].body.password

\* C17: the user id of a session that has one is the _id of a stored
\* student, and the session's name, email and srn are that student's; so
\* the lookup by that id in GET /courses, GET /my-courses and POST
\* /courses/:id/register finds a document, and no handler dereferences
\* null.
C17_SessionRefersToStudent ==
    /\ \A sid \in Sids :
          sessions[sid]._id # 0 =>
              /\ sessions[sid]._id \in 1..Len(students)
              /\ LET student == students[sessions[sid]._id]
                 IN  /\ student._id = sessions[sid]._id
                     /\ sessions[sid].name = student.name
                     /\ sessions[sid].email = student.email
                     /\ sessions[sid].srn = student.srn
    /\ \A r \in Reqs :
          /\ req[r].err # "TypeError"
          /\ (req[r].op \in Protected /\ req[r].uid # 0) =>
                 findById(students, req[r].uid) # 0

\* the second student's session was served a page from that student's
\* document
C17_Witness ==
    \E r \in Reqs :
        /\ req[r].op \in {"courses", "mycourses"}
        /\ req[r].res.kind = "render"
        /\ req[r].uid = 2 /\ Len(students) = 2
        /\ sessions[req[r].sid]._id = 2
        /\ sessions[req[r].sid].srn = students[2].srn

\* C18: every entry of every student's registeredCourses is the id and the
\* name of one of the 5 catalog courses.  (The catalog is the constant
\* COURSES: no handler assigns to it or to its elements.)
C18_EntriesFromCatalog ==
    /\ Cardinality(CatalogIds) = 5
    /\ \A i \in 1..Len(students) :
          \A k \in 1..Len(students[i].registeredCourses) :
              \E c \in 1..Len(COURSES) :
                  /\ students[i].registeredCourses[k].id = COURSES[c].id
                  /\ students[i].registeredCourses[k].name = COURSES[c].name

\* both students have registered courses, the first one the second
\* catalog course
C18_Witness ==
    /\ Len(students) = 2
    /\ students[2].registeredCourses # <<>>
    /\ \E k \in 1..Len(students[1].registeredCourses) :
          students[1].registeredCourses[k] =
              [id |-> COURSES[2].id, name |-> COURSES[2].name]

\* the session of request r's cookie has a user before this step
WhileAuthenticated(r) == sessions[req'[r].sid]._id # 0

\* after this step the session of request r's cookie identifies the
\* student that the login or signup r was for
IdentityReplaced(r) ==
    LET user == sessions'[req'[r].sid]
        body == req'[r].body
    IN  /\ user._id \in 1..Len(students')
        /\ students'[user._id].email = NormalEmail(body.email)
        /\ user.email = NormalEmail(body.email)
        /\ req'[r].op = "signup" =>
              /\ Len(students') = Len(students) + 1
              /\ user._id = Len(students')
              /\ user.srn = NormalSrn(body.srn)
        /\ req'[r].op = "login" => students' = students

\* C19: a login or signup answered while the session has a user A leaves
\* the session A's when it fails (any answer but the redirect to
\* /courses), and makes it the session of the student logged in or created
\* when it succeeds; a registration acts for the user its session has when
\* it arrives, the session does not come to identify another student while
\* it runs, and it changes that student's document and no other.
C19_SessionIdentity ==
    [][\A r \in Reqs :
        /\ (AuthAnswered(r) /\ WhileAuthenticated(r)) =>
              IF req'[r].res = Redirect("/courses")
              THEN IdentityReplaced(r)
              ELSE sessions' = sessions
        /\ (Arrives(r) /\ req'[r].op = "register") =>
              req'[r].uid = sessions[req'[r].sid]._id
        /\ (Continues(r) /\ req[r].op = "register") =>
              /\ sessions[req[r].sid]._id \in {req[r].uid, 0}
              /\ \A i \in 1..Len(students) :
                    i # req[r].uid => students'[i] = students[i]
              /\ req'[r].line = 228 =>
                    students'[req[r].uid] # students[req[r].uid]
      ]_vars

\* the session is the first student's again, after the second student
\* registered a course, and a course was registered for the first; the
\* second student's document has its one entry
C19_Witness ==
    \E r \in Reqs :
        /\ req[r].op = "register" /\ req[r].line = 228 /\ req[r].uid = 1
        /\ sessions[req[r].sid]._id = 1
        /\ Len(students) = 2
        /\ Len(students[2].registeredCourses) = 1
        /\ Len(students[1].registeredCourses) = 1

====
